---- MODULE Spec2Model ----
(***************************************************************************)
(* The telemetry reporter of create-cloudflare (metrics.ts,                *)
(* createReporter): sendEvent, collectAsyncMetrics, setEventProperty, the  *)
(* SIGINT/SIGTERM cancellation race and the event id counter, as a state   *)
(* machine over the Node.js event loop: one action per macrotask or        *)
(* promise continuation.                                                   *)
(***************************************************************************)
EXTENDS Integers, Sequences, FiniteSets, TLC

(* ------------------------------ bounds --------------------------------- *)

\* Last reading of Date.now() explored (ms since the reporter was created):
\* MaxTime with concurrent invocations, MaxTimeOne with a single invocation.
MaxTime == 10
MaxTimeOne == 20
\* Grace-period timers that may be pending at the same time.
MaxTimers == 2
\* Dispatch records up to which sendEvent is called from outside collectAsyncMetrics.
MaxEvents == 2
\* Telemetry commands run by one process.
MaxCommands == 3

(* ------------------------- program constants --------------------------- *)

\* `await setTimeout(10)` in cancel().
GracePeriod == 10

\* The placeholder esbuild replaces with the delivery credential.
SourceKeyPlaceholder == "__SPARROW_SOURCE_KEY__"

(* --------------------------- input domains ----------------------------- *)

\* Invocations of collectAsyncMetrics during one process lifetime, numbered in
\* call order; OneInv is the single-invocation scope.
Invs == {1, 2}
OneInv == {1}

\* The clock is read at multiples of the grace period.
TickSteps == {GracePeriod}

Signals == {"SIGINT", "SIGTERM"}

\* Values of SPARROW_SOURCE_KEY a build can produce.
SourceKeys == {SourceKeyPlaceholder, "sparrow-key"}

\* Event name prefixes (the <subject> of "<subject> started" ...).
Prefixes == {"c3 login"}

\* Keys of starting properties, keys passed to setEventProperty, property values.
StartKeys == {"alreadyLoggedIn"}
SetKeys == {"alreadyLoggedIn", "newLoginSuccessful", "durationMs"}
StartValues == {0}
SetValues == {1, 2}
\* The computed fields of a terminal event.
DurationKeys == {"durationMs", "durationSeconds", "durationMinutes"}

\* Values an operation resolves with.
Results == {"42"}

\* The value `undefined` where a string is expected.
Undefined == "undefined"

\* Failures: an Error, a thrown value that is no Error (but has a message
\* property), and a CancelError thrown by nested code without any signal.
ErrBoom == [kind |-> "Error", message |-> "boom", stack |-> "Error: boom", signal |-> Undefined]
NotAnError == [kind |-> "NonError", message |-> "plain", stack |-> Undefined, signal |-> Undefined]
NestedCancel == [kind |-> "CancelError", message |-> "nested", stack |-> "Error: nested", signal |-> Undefined]
OpFailures == {ErrBoom, NotAnError, NestedCancel}

\* new CancelError(message, signal): class CancelError extends Error.
CancelError(message, signal) ==
    [kind |-> "CancelError", message |-> message, stack |-> "Error: " \o message, signal |-> signal]

\* e instanceof Error / e instanceof CancelError.
InstanceOfError(e) == e.kind \in {"Error", "CancelError"}
InstanceOfCancelError(e) == e.kind = "CancelError"

NoFailure == [kind |-> "none", message |-> Undefined, stack |-> Undefined, signal |-> Undefined]

(* ----------------------------- promises -------------------------------- *)

\* A promise is pending, fulfilled with a value or rejected with a reason.
Pending == [state |-> "pending", value |-> Undefined, reason |-> NoFailure]
Fulfilled(v) == [state |-> "fulfilled", value |-> v, reason |-> NoFailure]
Rejected(e) == [state |-> "rejected", value |-> Undefined, reason |-> e]

\* Mutant: a later settlement replaces the earlier one.
Settle_Overwrite(p, outcome) == outcome

\* resolve/reject of a promise: only the first settlement takes effect.
Settle(p, outcome) == IF p.state = "pending" THEN outcome ELSE p

(* ------------------------------ objects -------------------------------- *)

EmptyObject == [k \in {} |-> 0]

\* { ...a, ...b }: keys of b override keys of a.
Spread(a, b) ==
    [k \in DOMAIN a \cup DOMAIN b |-> IF k \in DOMAIN b THEN b[k] ELSE a[k]]

\* All objects with keys among `keys` and values in `vals`.
Objects(keys, vals) == UNION {[d -> vals] : d \in SUBSET keys}

(* ------------------------------- state --------------------------------- *)

VARIABLES
    now,                  \* Date.now()
    sourceKey,            \* SPARROW_SOURCE_KEY of the build
    config,               \* the persisted metrics config: <<>> or <<c3permission>>
    telemetry,            \* createReporter: telemetry (the permission read at creation)
    isFirstUsage,         \* createReporter: isFirstUsage
    stored,               \* the persisted config createReporter read when the process started
    sinkCalls,            \* calls of sparrow.sendEvent made so far
    settled,              \* waitForAllEventsSettled: the state of the latest call
    lastCall,             \* how the latest setEventProperty call outside every store ended
    commands,             \* runTelemetryCommand: the commands run so far, with the status logged
    amplitude_event_id,   \* createReporter: the event id counter
    events,               \* createReporter: events, the dispatch records
    listeners,            \* process listeners of SIGINT and SIGTERM: invocations whose cancel is registered
    timers,               \* pending setTimeout(10) calls of cancel(), in expiry order
    ninv,                 \* invocations of collectAsyncMetrics started so far
    pc,                   \* per invocation: "idle", "racing" (awaiting the race), "done"
    parent,               \* per invocation: the invocation whose operation called it, 0 at top level
    options,              \* per invocation: eventPrefix, props, disableTelemetry
    startTime,            \* per invocation: startTime
    additionalProperties, \* per invocation: the property bag of its store
    opPromise,            \* per invocation: the promise options.promise() returned
    opCalled,             \* per invocation: options.promise has been called
    cancelDeferred,       \* per invocation: cancelDeferred.promise
    race,                 \* per invocation: the Promise.race promise
    result                \* per invocation: the promise collectAsyncMetrics returned

vars == <<now, sourceKey, config, telemetry, isFirstUsage, stored, sinkCalls, settled,
          lastCall, commands, amplitude_event_id, events,
          listeners, timers, ninv, pc, parent, options, startTime,
          additionalProperties, opPromise, opCalled, cancelDeferred, race, result>>

\* What the steps of collectAsyncMetrics leave alone.
reporterVars == <<sourceKey, config, telemetry, isFirstUsage, stored, settled, lastCall, commands>>


(* ------------------------- permission record --------------------------- *)

\* initializeC3Permission(enabled): the date is the clock reading.
initializeC3Permission(enabled, date) == [enabled |-> enabled, date |-> date]

\* Mutant: a permission first established is established as disabled.
getC3PermissionConfig_OptIn(cfg, date) ==
    IF cfg = <<>> THEN <<initializeC3Permission(FALSE, date)>> ELSE cfg

\* Mutant: the permission is stamped anew at every read.
getC3PermissionConfig_Restamp(cfg, date) ==
    <<initializeC3Permission(IF cfg = <<>> THEN TRUE ELSE cfg[1].enabled, date)>>

\* getC3Permission(config): the config after the call (written when it had no permission).
getC3PermissionConfig(cfg, date) ==
    IF cfg = <<>> THEN <<initializeC3Permission(TRUE, date)>> ELSE cfg

\* getC3Permission(config): the permission returned.
getC3Permission(cfg, date) == getC3PermissionConfig(cfg, date)[1]

\* Persisted configs a process can start with; stored dates are in the past.
StoredConfigs == {<<>>} \cup {<<initializeC3Permission(en, -1)>> : en \in BOOLEAN}

(* ------------------------------ sendEvent ------------------------------ *)

\* Mutant: only an empty credential counts as none.
hasSparrowSourceKey_Empty(key) == key # ""

\* sparrow.hasSparrowSourceKey()
hasSparrowSourceKey(key) == key # SourceKeyPlaceholder

\* getPlatform()
getPlatform(platform) ==
    CASE platform = "win32" -> <<"Windows">>
      [] platform = "darwin" -> <<"Mac OS">>
      [] platform = "linux" -> <<"Linux">>
      [] OTHER -> <<"Others: ", platform>>

\* Mutant: the counter is read and not incremented.
NextEventId_Stuck(id) == id

\* amplitude_event_id++ : the counter after the increment.
NextEventId(id) == id + 1

\* Mutant: the caller's properties are spread first, under the session metadata.
Payload_CallerFirst(name, properties, id, time, first) ==
    [event |-> <<"test ">> \o name,
     deviceId |-> "device",
     timestamp |-> time,
     properties |-> Spread(
        properties,
        [amplitude_session_id |-> 0,
         amplitude_event_id |-> id,
         platform |-> getPlatform("linux"),
         c3Version |-> "c3Version",
         isFirstUsage |-> first,
         packageManager |-> "npm"])]

\* The payload sendEvent builds: name is <<prefix, phase>>.
Payload(name, properties, id, time, first) ==
    [event |-> <<"test ">> \o name,
     deviceId |-> "device",
     timestamp |-> time,
     properties |-> Spread(
        [amplitude_session_id |-> 0,
         amplitude_event_id |-> id,
         platform |-> getPlatform("linux"),
         c3Version |-> "c3Version",
         isFirstUsage |-> first,
         packageManager |-> "npm"],
        properties)]

\* Mutant: the gate reads the persisted permission at every call, and the
\* payload says "first usage" while that permission is as young as the reporter.
sendEvent_LivePermission(st, name, properties, i) ==
    IF ~config[1].enabled \/ ~hasSparrowSourceKey(sourceKey)
    THEN st
    ELSE [events |-> Append(st.events,
                      [status |-> "pending",
                       payload |-> Payload(name, properties, st.id, now, config[1].date = 0),
                       reason |-> NoFailure,
                       inv |-> i]),
          id |-> NextEventId(st.id),
          calls |-> st.calls + 1]

\* Mutant: the counter is taken before the gate, so a gated call consumes an id.
sendEvent_CountGated(st, name, properties, i) ==
    IF ~telemetry.enabled \/ ~hasSparrowSourceKey(sourceKey)
    THEN [st EXCEPT !.id = NextEventId(st.id)]
    ELSE [events |-> Append(st.events,
                      [status |-> "pending",
                       payload |-> Payload(name, properties, st.id, now, isFirstUsage),
                       reason |-> NoFailure,
                       inv |-> i]),
          id |-> NextEventId(st.id),
          calls |-> st.calls + 1]

\* sendEvent(name, properties) on the reporter state st = [events, id, calls];
\* `i` is the invocation the call was made for (0: none), kept beside the record
\* for reference. The record is the promise `request`: pending until
\* sparrow.sendEvent settles, then {status, payload} or {status, payload, reason}.
sendEvent(st, name, properties, i) ==
    IF ~telemetry.enabled \/ ~hasSparrowSourceKey(sourceKey)
    THEN st
    ELSE [events |-> Append(st.events,
                      [status |-> "pending",
                       payload |-> Payload(name, properties, st.id, now, isFirstUsage),
                       reason |-> NoFailure,
                       inv |-> i]),
          id |-> NextEventId(st.id),
          calls |-> st.calls + 1]

\* getDuration(startTime): seconds and minutes are the exact quotients ms/1000
\* and ms/1000/60, kept as <<numerator, denominator>>.
getDuration(start) ==
    LET ms == now - start
    IN [ms |-> ms, seconds |-> <<ms, 1000>>, minutes |-> <<ms, 60000>>]

(* ------------------------- collectAsyncMetrics ------------------------- *)

\* `${options.eventPrefix} <phase>`
EventName(prefix, phase) == <<prefix, " ", phase>>

\* Mutant: the properties of the store are left out.
TerminalProperties_NoBag(props, bag, duration) ==
    Spread(props,
           [durationMs |-> duration.ms,
            durationSeconds |-> duration.seconds,
            durationMinutes |-> duration.minutes])

\* Mutant: the computed fields are spread first, under the caller's properties.
TerminalProperties_DurationFirst(props, bag, duration) ==
    Spread(Spread([durationMs |-> duration.ms,
                   durationSeconds |-> duration.seconds,
                   durationMinutes |-> duration.minutes],
                  props),
           bag)

\* { ...options.props, ...additionalProperties, durationMs, durationSeconds, durationMinutes }
TerminalProperties(props, bag, duration) ==
    Spread(Spread(props, bag),
           [durationMs |-> duration.ms,
            durationSeconds |-> duration.seconds,
            durationMinutes |-> duration.minutes])

\* Mutant: message and stack are read without the instanceof test.
ErrorDescriptor_Unchecked(e) == [message |-> e.message, stack |-> e.stack]

\* error: { message, stack } of the errored event.
ErrorDescriptor(e) ==
    [message |-> IF InstanceOfError(e) THEN e.message ELSE Undefined,
     stack |-> IF InstanceOfError(e) THEN e.stack ELSE Undefined]

\* Mutant: only a CancelError that carries a signal counts as a cancellation.
TerminalPhase_SignalOnly(outcome) ==
    IF outcome.state = "fulfilled" THEN "completed"
    ELSE IF InstanceOfCancelError(outcome.reason) /\ outcome.reason.signal # Undefined
         THEN "cancelled"
    ELSE "errored"

\* The phase of the terminal event for a settled race: the statements after
\* the await when it fulfilled, the branch of the catch block when it rejected.
TerminalPhase(outcome) ==
    IF outcome.state = "fulfilled" THEN "completed"
    ELSE IF InstanceOfCancelError(outcome.reason) THEN "cancelled"
    ELSE "errored"

\* Mutant: the catch block reports nothing for a CancelError.
SendTerminal_SkipCancelled(st, i, opts, bag, start, outcome) ==
    IF opts.disableTelemetry \/ TerminalPhase(outcome) = "cancelled" THEN st
    ELSE LET base == TerminalProperties(opts.props, bag, getDuration(start))
             phase == TerminalPhase(outcome)
         IN sendEvent(st, EventName(opts.eventPrefix, phase),
                      IF phase = "errored"
                      THEN Spread(base, [error |-> ErrorDescriptor(outcome.reason)])
                      ELSE base,
                      i)

\* The reporter state after the terminal event of invocation i for the race outcome.
SendTerminal(st, i, opts, bag, start, outcome) ==
    IF opts.disableTelemetry THEN st
    ELSE LET base == TerminalProperties(opts.props, bag, getDuration(start))
             phase == TerminalPhase(outcome)
         IN sendEvent(st, EventName(opts.eventPrefix, phase),
                      IF phase = "errored"
                      THEN Spread(base, [error |-> ErrorDescriptor(outcome.reason)])
                      ELSE base,
                      i)

\* Mutant: the started event is sent whatever disableTelemetry says.
SendStarted_IgnoreDisable(st, i, opts) ==
    sendEvent(st, EventName(opts.eventPrefix, "started"), opts.props, i)

\* Mutant: the started event is sent only while no event has been dispatched.
SendStarted_FirstOnly(st, i, opts) ==
    IF opts.disableTelemetry \/ st.events # <<>> THEN st
    ELSE sendEvent(st, EventName(opts.eventPrefix, "started"), opts.props, i)

\* sendEvent(`${prefix} started`, options.props) unless disabled.
SendStarted(st, i, opts) ==
    IF opts.disableTelemetry THEN st
    ELSE sendEvent(st, EventName(opts.eventPrefix, "started"), opts.props, i)

\* What the async function settles its promise with: `return result` / `throw e`.
AsyncResult(outcome) == outcome

\* process.on(sig, cancel): the listener is appended.
AddListener(ls, i) == Append(ls, i)

\* Mutant: the oldest listener is removed, whichever invocation it belongs to.
RemoveListener_Oldest(ls, i) == IF ls = <<>> THEN <<>> ELSE Tail(ls)

\* process.off(sig, cancel): the most recently added instance of the listener is removed.
RECURSIVE RemoveListener(_, _)
RemoveListener(ls, i) ==
    IF ls = <<>> THEN <<>>
    ELSE IF ls[Len(ls)] = i THEN SubSeq(ls, 1, Len(ls) - 1)
    ELSE Append(RemoveListener(SubSeq(ls, 1, Len(ls) - 1), i), ls[Len(ls)])

\* Mutant: the signal is not handed to the CancelError.
CancelRejection_NoSignal(signal) == Rejected(CancelError("Operation cancelled", Undefined))

\* cancelDeferred.reject(new CancelError(`Operation cancelled`, signal))
CancelRejection(signal) == Rejected(CancelError("Operation cancelled", signal))

\* A promise continuation (microtask) is queued: the race of an awaiting
\* invocation has settled. Signals and timers are macrotasks and wait for it.
MicrotaskPending == \E i \in Invs : pc[i] = "racing" /\ race[i].state # "pending"

\* collectAsyncMetrics(options) up to the await, called from the operation of
\* `caller` (0: from outside any operation). options.promise() returns its
\* promise, or throws synchronously (syncThrow # NoFailure) and the catch and
\* finally blocks run at once.
Call(ids, caller, prefix, props, disable, syncThrow) ==
    LET i == ninv + 1
        opts == [eventPrefix |-> prefix, props |-> props, disableTelemetry |-> disable]
        st0 == [events |-> events, id |-> amplitude_event_id, calls |-> sinkCalls]
        st1 == SendStarted(st0, i, opts)
        thrown == Rejected(syncThrow)
        st2 == IF syncThrow = NoFailure THEN st1
               ELSE SendTerminal(st1, i, opts, EmptyObject, now, thrown)
    IN /\ i \in ids
       /\ caller = 0 \/ (caller \in 1..ninv /\ opCalled[caller] /\ opPromise[caller].state = "pending")
       /\ ninv' = i
       /\ parent' = [parent EXCEPT ![i] = caller]
       /\ options' = [options EXCEPT ![i] = opts]
       /\ startTime' = [startTime EXCEPT ![i] = now]
       /\ events' = st2.events
       /\ amplitude_event_id' = st2.id
       /\ sinkCalls' = st2.calls
       /\ opCalled' = [opCalled EXCEPT ![i] = TRUE]
       /\ IF syncThrow = NoFailure
          THEN /\ listeners' = [s \in Signals |-> AddListener(listeners[s], i)]
               /\ pc' = [pc EXCEPT ![i] = "racing"]
               /\ UNCHANGED <<opPromise, result>>
          ELSE /\ listeners' =
                    [s \in Signals |-> RemoveListener(AddListener(listeners[s], i), i)]
               /\ pc' = [pc EXCEPT ![i] = "done"]
               /\ opPromise' = [opPromise EXCEPT ![i] = thrown]
               /\ result' = [result EXCEPT ![i] = AsyncResult(thrown)]
       /\ UNCHANGED <<now, reporterVars, timers, additionalProperties, cancelDeferred, race>>

\* Mutant: a nested invocation runs its operation in the store of the
\* invocation whose operation called it.
alsGetStore_Enclosing(ctx) ==
    IF ctx \in 1..ninv /\ parent[ctx] # 0 THEN parent[ctx] ELSE ctx

\* Mutant: one store for the whole process, the one of the latest invocation.
alsGetStore_Singleton(ctx) == IF ctx = 0 THEN 0 ELSE ninv

\* als.getStore() in the asynchronous context ctx, the call tree of the
\* operation of invocation ctx: the store of the innermost als.run around it
\* (0: outside every als.run, no store).
alsGetStore(ctx) == ctx

\* Mutant: the events sent after the await hold the property bag itself, not a
\* copy of it, so a later setEventProperty shows in them.
setEventProperty_Aliased(ctx, key, value) ==
    LET store == alsGetStore(ctx)
    IN /\ ctx \in 1..ninv
       /\ pc[ctx] = "racing" \/ opPromise[ctx].state = "pending"
       /\ additionalProperties' =
            IF store = 0 THEN additionalProperties
            ELSE [additionalProperties EXCEPT ![store] = Spread(@, [k \in {key} |-> value])]
       /\ events' =
            [n \in DOMAIN events |->
               IF events[n].inv = store /\ events[n].payload.event[4] # "started"
               THEN [events[n] EXCEPT !.payload.properties = Spread(@, [k \in {key} |-> value])]
               ELSE events[n]]
       /\ UNCHANGED <<now, reporterVars, amplitude_event_id, sinkCalls, listeners, timers, ninv,
                      pc, parent, options, startTime, opPromise, opCalled, cancelDeferred, race,
                      result>>

\* reporter.setEventProperty(key, value) called by code of the operation of
\* invocation ctx, while the operation runs or the invocation awaits (later
\* calls change a bag that nothing reads any more).
setEventProperty(ctx, key, value) ==
    LET store == alsGetStore(ctx)
    IN /\ ctx \in 1..ninv
       /\ pc[ctx] = "racing" \/ opPromise[ctx].state = "pending"
       /\ additionalProperties' =
            IF store = 0 THEN additionalProperties
            ELSE [additionalProperties EXCEPT ![store] = Spread(@, [k \in {key} |-> value])]
       /\ UNCHANGED <<now, reporterVars, amplitude_event_id, events, sinkCalls, listeners, timers, ninv, pc,
                      parent, options, startTime, opPromise, opCalled, cancelDeferred, race,
                      result>>

\* Mutant: the race takes the operation's outcome even when it has settled before.
OpSettle_LateWins(i, outcome) ==
    /\ i \in 1..ninv
    /\ opPromise[i].state = "pending"
    /\ opPromise' = [opPromise EXCEPT ![i] = Settle(@, outcome)]
    /\ race' = [race EXCEPT ![i] = outcome]
    /\ UNCHANGED <<now, reporterVars, amplitude_event_id, events, sinkCalls, listeners, timers, ninv, pc,
                   parent, options, startTime, additionalProperties, opCalled, cancelDeferred,
                   result>>

\* The operation of invocation i settles: its promise resolves or rejects, and
\* Promise.race settles with it unless it has settled before.
OpSettle(i, outcome) ==
    /\ i \in 1..ninv
    /\ opPromise[i].state = "pending"
    /\ opPromise' = [opPromise EXCEPT ![i] = Settle(@, outcome)]
    /\ race' = [race EXCEPT ![i] = Settle(@, outcome)]
    /\ UNCHANGED <<now, reporterVars, amplitude_event_id, events, sinkCalls, listeners, timers, ninv, pc,
                   parent, options, startTime, additionalProperties, opCalled, cancelDeferred,
                   result>>

\* Mutant: only the listener registered last runs, as if each process.on
\* replaced the listener before it.
Signal_InnermostOnly(sig, horizon) ==
    /\ ~MicrotaskPending
    /\ listeners[sig] # <<>>
    /\ now + GracePeriod <= horizon
    /\ Len(timers) + Len(listeners[sig]) <= MaxTimers
    /\ timers' = Append(timers, [inv |-> listeners[sig][Len(listeners[sig])], signal |-> sig,
                                 due |-> now + GracePeriod])
    /\ UNCHANGED <<now, reporterVars, amplitude_event_id, events, sinkCalls, listeners, ninv, pc,
                   parent, options, startTime, additionalProperties, opPromise, opCalled,
                   cancelDeferred, race, result>>

\* Mutant: cancel() rejects without waiting for the grace period (a timer of 0 ms).
Signal_NoGrace(sig, horizon) ==
    /\ ~MicrotaskPending
    /\ listeners[sig] # <<>>
    /\ now + GracePeriod <= horizon
    /\ Len(timers) + Len(listeners[sig]) <= MaxTimers
    /\ timers' = timers \o [n \in 1..Len(listeners[sig]) |->
                              [inv |-> listeners[sig][n], signal |-> sig, due |-> now]]
    /\ UNCHANGED <<now, reporterVars, amplitude_event_id, events, sinkCalls, listeners, ninv, pc,
                   parent, options, startTime, additionalProperties, opPromise, opCalled,
                   cancelDeferred, race, result>>

\* The process receives a signal: every registered cancel(signal) runs up to
\* its `await setTimeout(10)`.
Signal(sig, horizon) ==
    /\ ~MicrotaskPending
    /\ listeners[sig] # <<>>
    /\ now + GracePeriod <= horizon
    /\ Len(timers) + Len(listeners[sig]) <= MaxTimers
    /\ timers' = timers \o [n \in 1..Len(listeners[sig]) |->
                              [inv |-> listeners[sig][n], signal |-> sig, due |-> now + GracePeriod]]
    /\ UNCHANGED <<now, reporterVars, amplitude_event_id, events, sinkCalls, listeners, ninv, pc, parent,
                   options, startTime, additionalProperties, opPromise, opCalled, cancelDeferred,
                   race, result>>

\* The earliest timer expires and cancel() resumes:
\* cancelDeferred.reject(new CancelError(..., signal)), which settles the race
\* unless it has settled before.
TimerFire ==
    /\ ~MicrotaskPending
    /\ timers # <<>>
    /\ timers[1].due <= now
    /\ LET t == timers[1]
       IN /\ cancelDeferred' = [cancelDeferred EXCEPT ![t.inv] = Settle(@, CancelRejection(t.signal))]
          /\ race' = [race EXCEPT ![t.inv] =
                        IF cancelDeferred[t.inv].state = "pending"
                        THEN Settle(@, CancelRejection(t.signal)) ELSE @]
    /\ timers' = Tail(timers)
    /\ UNCHANGED <<now, reporterVars, amplitude_event_id, events, sinkCalls, listeners, ninv, pc, parent,
                   options, startTime, additionalProperties, opPromise, opCalled, result>>

\* collectAsyncMetrics after the await: the terminal event, return or rethrow, finally.
Continue(i) ==
    /\ i \in 1..ninv
    /\ pc[i] = "racing"
    /\ race[i].state # "pending"
    /\ LET st == SendTerminal([events |-> events, id |-> amplitude_event_id,
                               calls |-> sinkCalls], i, options[i],
                              additionalProperties[i], startTime[i], race[i])
       IN /\ events' = st.events
          /\ amplitude_event_id' = st.id
          /\ sinkCalls' = st.calls
    /\ result' = [result EXCEPT ![i] = AsyncResult(race[i])]
    /\ listeners' = [s \in Signals |-> RemoveListener(listeners[s], i)]
    /\ pc' = [pc EXCEPT ![i] = "done"]
    /\ UNCHANGED <<now, reporterVars, timers, ninv, parent, options, startTime,
                   additionalProperties, opPromise, opCalled, cancelDeferred, race>>

\* Time passes.
Tick(d, horizon) ==
    /\ now + d <= horizon
    /\ now' = now + d
    /\ UNCHANGED <<reporterVars, amplitude_event_id, events, sinkCalls, listeners, timers, ninv, pc, parent,
                   options, startTime, additionalProperties, opPromise, opCalled, cancelDeferred,
                   race, result>>

\* Date.now() reads the wall clock, which the system may set back (a clock
\* synchronisation step, a manual change) between two readings.
ClockStepBack(d) ==
    /\ now - d >= 0
    /\ now' = now - d
    /\ UNCHANGED <<reporterVars, amplitude_event_id, events, sinkCalls, listeners, timers, ninv,
                   pc, parent, options, startTime, additionalProperties, opPromise, opCalled,
                   cancelDeferred, race, result>>

(* ------------------------- dispatch settlement ------------------------- *)

\* Property values JSON.stringify throws a TypeError on: a BigInt, an object
\* that contains itself.
Unserializable == {-1}

\* The keys whose value the caller of the reporter chooses.
CallerKeys == StartKeys \cup SetKeys

\* JSON.stringify(payload) throws.
StringifyThrows(payload) ==
    \E k \in DOMAIN payload.properties \cap CallerKeys :
        payload.properties[k] \in Unserializable

\* What sparrow.sendEvent rejects with: fetch failed, or JSON.stringify threw.
FetchFailed ==
    [kind |-> "Error", message |-> "fetch failed", stack |-> "TypeError: fetch failed",
     signal |-> Undefined]
StringifyFailed ==
    [kind |-> "Error", message |-> "Do not know how to serialize a BigInt",
     stack |-> "TypeError: Do not know how to serialize a BigInt", signal |-> Undefined]

\* How the promise of sparrow.sendEvent(payload) can settle: the body is
\* serialized before fetch is called, and fetch resolves for every response.
SinkOutcomes(payload) ==
    IF StringifyThrows(payload) THEN {Rejected(StringifyFailed)}
    ELSE {Fulfilled("sent"), Rejected(FetchFailed)}

\* .then(() => ({ status: "success", payload }))
\* .catch((reason) => ({ status: "failed", payload, reason }))
DispatchRecord(rec, outcome) ==
    IF outcome.state = "fulfilled"
    THEN [rec EXCEPT !.status = "success"]
    ELSE [rec EXCEPT !.status = "failed", !.reason = outcome.reason]

\* Mutant: a failed send is sent again and its record stays pending.
SinkSettle_Retry(n, outcome) ==
    /\ n \in DOMAIN events
    /\ events[n].status = "pending"
    /\ outcome \in SinkOutcomes(events[n].payload)
    /\ IF outcome.state = "fulfilled"
       THEN events' = [events EXCEPT ![n] = DispatchRecord(@, outcome)] /\ UNCHANGED sinkCalls
       ELSE sinkCalls' = sinkCalls + 1 /\ UNCHANGED events
    /\ UNCHANGED <<now, reporterVars, amplitude_event_id, listeners, timers, ninv, pc,
                   parent, options, startTime, additionalProperties, opPromise, opCalled,
                   cancelDeferred, race, result>>

\* The send of dispatch record n settles, and `request` with it.
SinkSettle(n, outcome) ==
    /\ n \in DOMAIN events
    /\ events[n].status = "pending"
    /\ outcome \in SinkOutcomes(events[n].payload)
    /\ events' = [events EXCEPT ![n] = DispatchRecord(@, outcome)]
    /\ UNCHANGED <<now, reporterVars, amplitude_event_id, sinkCalls, listeners, timers, ninv, pc,
                   parent, options, startTime, additionalProperties, opPromise, opCalled,
                   cancelDeferred, race, result>>

\* reporter.sendEvent(name, properties) called from outside collectAsyncMetrics.
SendEventCall(name, properties) ==
    /\ Len(events) < MaxEvents
    /\ LET st == sendEvent([events |-> events, id |-> amplitude_event_id, calls |-> sinkCalls],
                           name, properties, 0)
       IN /\ events' = st.events
          /\ amplitude_event_id' = st.id
          /\ sinkCalls' = st.calls
    /\ UNCHANGED <<now, reporterVars, listeners, timers, ninv, pc, parent, options, startTime,
                   additionalProperties, opPromise, opCalled, cancelDeferred, race, result>>

\* No call of waitForAllEventsSettled so far. `upto` counts the promises the
\* latest call took, `before` those the call before it took (-1: there was none).
NotWaiting == [state |-> "none", upto |-> 0, before |-> -1]

\* waitForAllEventsSettled() up to its await: Promise.allSettled(events) takes
\* the promises the array holds at the call.
WaitCall ==
    /\ settled.state # "waiting"
    /\ settled' = [state |-> "waiting", upto |-> Len(events),
                   before |-> IF settled.state = "none" THEN -1 ELSE settled.upto]
    /\ UNCHANGED <<now, sourceKey, config, telemetry, isFirstUsage, stored, lastCall, commands,
                   amplitude_event_id, events, sinkCalls, listeners, timers, ninv, pc,
                   parent, options, startTime, additionalProperties, opPromise, opCalled,
                   cancelDeferred, race, result>>

\* Mutant: the records awaited are removed from the array.
WaitResume_Drain ==
    /\ settled.state = "waiting"
    /\ \A n \in 1..settled.upto : events[n].status # "pending"
    /\ settled' = [settled EXCEPT !.state =
                     IF \E n \in 1..settled.upto : StringifyThrows(events[n].payload)
                     THEN "rejected" ELSE "resolved"]
    /\ events' = SubSeq(events, settled.upto + 1, Len(events))
    /\ UNCHANGED <<now, sourceKey, config, telemetry, isFirstUsage, stored, lastCall, commands,
                   amplitude_event_id, sinkCalls, listeners, timers, ninv, pc,
                   parent, options, startTime, additionalProperties, opPromise, opCalled,
                   cancelDeferred, race, result>>

\* Mutant: a timeout ends the wait while sends are outstanding.
WaitResume_Timeout ==
    /\ settled.state = "waiting"
    /\ settled' = [settled EXCEPT !.state =
                     IF \E n \in 1..settled.upto : StringifyThrows(events[n].payload)
                     THEN "rejected" ELSE "resolved"]
    /\ UNCHANGED <<now, sourceKey, config, telemetry, isFirstUsage, stored, lastCall, commands,
                   amplitude_event_id, events, sinkCalls, listeners, timers, ninv, pc,
                   parent, options, startTime, additionalProperties, opPromise, opCalled,
                   cancelDeferred, race, result>>

\* waitForAllEventsSettled() after its await, once every promise taken has
\* settled: console.log(JSON.stringify(result.map(...))), which throws when a
\* payload cannot be serialized, and the async function rejects.
WaitResume ==
    /\ settled.state = "waiting"
    /\ \A n \in 1..settled.upto : events[n].status # "pending"
    /\ settled' = [settled EXCEPT !.state =
                     IF \E n \in 1..settled.upto : StringifyThrows(events[n].payload)
                     THEN "rejected" ELSE "resolved"]
    /\ UNCHANGED <<now, sourceKey, config, telemetry, isFirstUsage, stored, lastCall, commands,
                   amplitude_event_id, events, sinkCalls, listeners, timers, ninv, pc,
                   parent, options, startTime, additionalProperties, opPromise, opCalled,
                   cancelDeferred, race, result>>

(* -------------------- setEventProperty without a store ------------------ *)

\* No call of setEventProperty outside a store so far.
NoCall == [vitest |-> FALSE, outcome |-> "none", error |-> NoFailure]

\* new Error(...): the message, without the backquotes around the two names.
NoStoreError ==
    [kind |-> "Error", message |-> "setEventProperty must be called within collectAsyncMetrics",
     stack |-> "Error: setEventProperty must be called within collectAsyncMetrics",
     signal |-> Undefined]

\* Mutant: the missing store is ignored whatever process.env.VITEST holds.
setEventPropertyNoStore_Silent(key, value, vitest) ==
    /\ lastCall' = [vitest |-> vitest, outcome |-> "returned", error |-> NoFailure]
    /\ UNCHANGED <<now, sourceKey, config, telemetry, isFirstUsage, stored, settled, commands,
                   amplitude_event_id, events, sinkCalls, listeners, timers, ninv, pc,
                   parent, options, startTime, additionalProperties, opPromise, opCalled,
                   cancelDeferred, race, result>>

\* reporter.setEventProperty(key, value) called outside every als.run (context 0),
\* with process.env.VITEST set or not.
setEventPropertyNoStore(key, value, vitest) ==
    LET store == alsGetStore(0)
    IN /\ lastCall' =
            IF store = 0 /\ vitest
            THEN [vitest |-> vitest, outcome |-> "thrown", error |-> NoStoreError]
            ELSE [vitest |-> vitest, outcome |-> "returned", error |-> NoFailure]
       /\ additionalProperties' =
            IF store = 0 THEN additionalProperties
            ELSE [additionalProperties EXCEPT ![store] = Spread(@, [k \in {key} |-> value])]
       /\ UNCHANGED <<now, sourceKey, config, telemetry, isFirstUsage, stored, settled, commands,
                      amplitude_event_id, events, sinkCalls, listeners, timers, ninv, pc,
                      parent, options, startTime, opPromise, opCalled, cancelDeferred, race,
                      result>>

(* --------------------------- telemetry commands ------------------------ *)

\* Mutant: the permission is rewritten whatever it holds.
updateC3PemissionConfig_Restamp(cfg, enabled, date) ==
    <<initializeC3Permission(enabled, date)>>

\* updateC3Pemission(enabled): the config after the call.
updateC3PemissionConfig(cfg, enabled, date) ==
    IF cfg # <<>> /\ cfg[1].enabled = enabled THEN cfg
    ELSE <<initializeC3Permission(enabled, date)>>

\* logTelemetryStatus(enabled): the line logged.
logTelemetryStatus(enabled) == <<"Status: ", IF enabled THEN "Enabled" ELSE "Disabled">>

\* runTelemetryCommand(action): the persisted config is read, and written when
\* the permission changes or is first established.
runTelemetryCommand(action) ==
    /\ Len(commands) < MaxCommands
    /\ config' = CASE action = "enable" -> updateC3PemissionConfig(config, TRUE, now)
                   [] action = "disable" -> updateC3PemissionConfig(config, FALSE, now)
                   [] action = "status" -> getC3PermissionConfig(config, now)
    /\ commands' = Append(commands,
                     [action |-> action,
                      logged |-> CASE action = "enable" -> logTelemetryStatus(TRUE)
                                   [] action = "disable" -> logTelemetryStatus(FALSE)
                                   [] action = "status" ->
                                        logTelemetryStatus(getC3Permission(config, now).enabled)])
    /\ UNCHANGED <<now, sourceKey, telemetry, isFirstUsage, stored, settled, lastCall,
                   amplitude_event_id, events, sinkCalls, listeners, timers, ninv, pc,
                   parent, options, startTime, additionalProperties, opPromise, opCalled,
                   cancelDeferred, race, result>>

(* --------------------------- specifications ---------------------------- *)

\* createReporter(): the state after construction, for every stored config and build.
Init ==
    /\ now = 0
    /\ sourceKey \in SourceKeys
    /\ stored \in StoredConfigs
    /\ isFirstUsage = (stored = <<>>)
    /\ telemetry = getC3Permission(stored, 0)
    /\ config = getC3PermissionConfig(stored, 0)
    /\ sinkCalls = 0
    /\ settled = NotWaiting
    /\ lastCall = NoCall
    /\ commands = <<>>
    /\ amplitude_event_id = 0
    /\ events = <<>>
    /\ listeners = [s \in Signals |-> <<>>]
    /\ timers = <<>>
    /\ ninv = 0
    /\ pc = [i \in Invs |-> "idle"]
    /\ parent = [i \in Invs |-> 0]
    /\ options = [i \in Invs |->
                    [eventPrefix |-> "", props |-> EmptyObject, disableTelemetry |-> FALSE]]
    /\ startTime = [i \in Invs |-> 0]
    /\ additionalProperties = [i \in Invs |-> EmptyObject]
    /\ opPromise = [i \in Invs |-> Pending]
    /\ opCalled = [i \in Invs |-> FALSE]
    /\ cancelDeferred = [i \in Invs |-> Pending]
    /\ race = [i \in Invs |-> Pending]
    /\ result = [i \in Invs |-> Pending]

\* Inputs with concurrent invocations.
ConcProps == {[alreadyLoggedIn |-> 0]}
ConcSetKeys == {"newLoginSuccessful"}
ConcSetValues == {1}
ConcFailures == {ErrBoom, NestedCancel}

\* Two invocations, nested or side by side, with interrupts.
Next ==
    \/ \E caller \in {0} \cup Invs, prefix \in Prefixes, props \in ConcProps,
          disable \in BOOLEAN, syncThrow \in {NoFailure, ErrBoom} :
         Call(Invs, caller, prefix, props, disable, syncThrow)
    \/ \E ctx \in Invs, key \in ConcSetKeys, value \in ConcSetValues :
         setEventProperty(ctx, key, value)
    \/ \E i \in Invs, v \in Results : OpSettle(i, Fulfilled(v))
    \/ \E i \in Invs, e \in ConcFailures : OpSettle(i, Rejected(e))
    \/ \E sig \in Signals : Signal(sig, MaxTime)
    \/ TimerFire
    \/ \E i \in Invs : Continue(i)
    \/ \E d \in TickSteps : Tick(d, MaxTime)

Spec == Init /\ [][Next]_vars

\* One invocation, with every starting property, key, value and failure.
NextOne ==
    \/ \E prefix \in Prefixes, props \in Objects(StartKeys, StartValues),
          disable \in BOOLEAN, syncThrow \in {NoFailure} \cup OpFailures :
         Call(OneInv, 0, prefix, props, disable, syncThrow)
    \/ \E key \in SetKeys, value \in SetValues : setEventProperty(1, key, value)
    \/ \E v \in Results : OpSettle(1, Fulfilled(v))
    \/ \E e \in OpFailures : OpSettle(1, Rejected(e))
    \/ \E sig \in Signals : Signal(sig, MaxTimeOne)
    \/ TimerFire
    \/ Continue(1)
    \/ \E d \in TickSteps : Tick(d, MaxTimeOne)

SpecOne == Init /\ [][NextOne]_vars

\* The event loop runs queued continuations, fires expired timers, and time passes;
\* operations and signals come from outside and need not happen.
Fairness ==
    /\ WF_vars(TimerFire)
    /\ WF_vars(Continue(1))
    /\ WF_vars(\E d \in TickSteps : Tick(d, MaxTimeOne))

\* One invocation with the inputs of Next, for the properties of progress.
NextLive ==
    \/ \E prefix \in Prefixes, props \in ConcProps, disable \in BOOLEAN,
          syncThrow \in {NoFailure, ErrBoom} :
         Call(OneInv, 0, prefix, props, disable, syncThrow)
    \/ \E key \in ConcSetKeys, value \in ConcSetValues : setEventProperty(1, key, value)
    \/ \E v \in Results : OpSettle(1, Fulfilled(v))
    \/ \E e \in ConcFailures : OpSettle(1, Rejected(e))
    \/ \E sig \in Signals : Signal(sig, MaxTimeOne)
    \/ TimerFire
    \/ Continue(1)
    \/ \E d \in TickSteps : Tick(d, MaxTimeOne)

FairSpec == Init /\ [][NextLive]_vars /\ Fairness

\* Inputs of the dispatch specification: the names and properties of direct
\* sendEvent calls, and the values given to setEventProperty.
DirectNames == {<<"c3 session started">>}
SinkValues == {1} \cup Unserializable
TelemetryActions == {"status", "enable", "disable"}

\* One invocation without interrupts, direct sendEvent calls, the settlement of
\* the sends, waitForAllEventsSettled, and setEventProperty outside every store.
NextSink ==
    \/ \E prefix \in Prefixes, props \in ConcProps, disable \in BOOLEAN :
         Call(OneInv, 0, prefix, props, disable, NoFailure)
    \/ \E key \in ConcSetKeys, value \in SinkValues : setEventProperty(1, key, value)
    \/ \E v \in Results : OpSettle(1, Fulfilled(v))
    \/ OpSettle(1, Rejected(ErrBoom))
    \/ Continue(1)
    \/ \E name \in DirectNames, props \in ConcProps : SendEventCall(name, props)
    \/ \E n \in 1..(MaxEvents + 2),
          outcome \in {Fulfilled("sent"), Rejected(FetchFailed), Rejected(StringifyFailed)} :
         SinkSettle(n, outcome)
    \/ WaitCall
    \/ WaitResume
    \/ \E key \in ConcSetKeys, value \in ConcSetValues, vitest \in BOOLEAN :
         setEventPropertyNoStore(key, value, vitest)

SpecSink == Init /\ [][NextSink]_vars

\* The telemetry commands of one process, at any time.
NextCommand ==
    \/ \E action \in TelemetryActions : runTelemetryCommand(action)
    \/ \E d \in TickSteps : Tick(d, MaxTimeOne)

SpecCommand == Init /\ [][NextCommand]_vars

\* Keys of the merge specification, given as starting properties and to
\* setEventProperty: a plain one, a computed field's name, and `error`.
MergeKeys == {"alreadyLoggedIn", "durationMs", "error"}

\* One invocation without interrupts, whose starting and context properties
\* take the names of computed fields.
NextMerge ==
    \/ \E prefix \in Prefixes, props \in Objects(MergeKeys, StartValues),
          syncThrow \in {NoFailure, ErrBoom} :
         Call(OneInv, 0, prefix, props, FALSE, syncThrow)
    \/ \E key \in MergeKeys, value \in SetValues : setEventProperty(1, key, value)
    \/ \E v \in Results : OpSettle(1, Fulfilled(v))
    \/ \E e \in ConcFailures : OpSettle(1, Rejected(e))
    \/ Continue(1)
    \/ \E d \in TickSteps : Tick(d, MaxTimeOne)

SpecMerge == Init /\ [][NextMerge]_vars

\* One invocation without interrupts under a wall clock that can be set back.
NextClock ==
    \/ \E prefix \in Prefixes, props \in ConcProps, syncThrow \in {NoFailure, ErrBoom} :
         Call(OneInv, 0, prefix, props, FALSE, syncThrow)
    \/ \E key \in ConcSetKeys, value \in ConcSetValues : setEventProperty(1, key, value)
    \/ \E v \in Results : OpSettle(1, Fulfilled(v))
    \/ \E e \in ConcFailures : OpSettle(1, Rejected(e))
    \/ Continue(1)
    \/ \E d \in TickSteps : Tick(d, MaxTimeOne)
    \/ \E d \in TickSteps : ClockStepBack(d)

SpecClock == Init /\ [][NextClock]_vars

\* Caller properties named like a metadata field and like the two fields of
\* the payload the dispatcher sets, with a value none of them takes.
PayloadKeys == {"amplitude_event_id", "deviceId", "timestamp"}
PayloadValues == {7}

\* Direct sendEvent calls whose properties take the names of payload fields.
NextPayload ==
    \/ \E name \in DirectNames, props \in Objects(PayloadKeys, PayloadValues) :
         SendEventCall(name, props)
    \/ \E n \in 1..MaxEvents,
          outcome \in {Fulfilled("sent"), Rejected(FetchFailed)} : SinkSettle(n, outcome)
    \/ \E d \in TickSteps : Tick(d, MaxTimeOne)

SpecPayload == Init /\ [][NextPayload]_vars

\* Two invocations, the second started by the operation of the first, each
\* with a prefix of its own choice.
NestedPrefixes == {"c3 session", "c3 login"}
NextNested ==
    \/ \E prefix \in NestedPrefixes, disable \in BOOLEAN :
         Call(Invs, ninv, prefix, EmptyObject, disable, NoFailure)
    \/ \E i \in Invs, v \in Results : OpSettle(i, Fulfilled(v))
    \/ \E i \in Invs, e \in ConcFailures : OpSettle(i, Rejected(e))
    \/ \E sig \in Signals : Signal(sig, MaxTime)
    \/ TimerFire
    \/ \E i \in Invs : Continue(i)
    \/ \E d \in TickSteps : Tick(d, MaxTime)

SpecNested == Init /\ [][NextNested]_vars

\* A session in which events are sent while telemetry commands change the
\* persisted permission.
NextSession ==
    \/ \E name \in DirectNames, props \in ConcProps : SendEventCall(name, props)
    \/ \E action \in TelemetryActions : runTelemetryCommand(action)
    \/ \E d \in TickSteps : Tick(d, MaxTimeOne)

SpecSession == Init /\ [][NextSession]_vars

(* ------------------------------ properties ----------------------------- *)

\* sendEvent is not gated: telemetry is permitted and the build has a credential.
Dispatching == telemetry.enabled /\ hasSparrowSourceKey(sourceKey)

\* Invocation i emits events: not gated and disableTelemetry false.
Emitting(i) == Dispatching /\ ~options[i].disableTelemetry

\* Indices of the dispatch records made for invocation i, all and by phase.
EventsOfInv(i) == {n \in DOMAIN events : events[n].inv = i}
EventsOf(i, phase) ==
    {n \in EventsOfInv(i) :
        events[n].payload.event = <<"test ", options[i].eventPrefix, " ", phase>>}
TerminalEventsOf(i) ==
    EventsOf(i, "completed") \cup EventsOf(i, "errored") \cup EventsOf(i, "cancelled")

\* The race of invocation i was settled by the rejection of cancelDeferred.
CancelWon(i) == cancelDeferred[i].state = "rejected" /\ race[i] = cancelDeferred[i]

\* The race of invocation i was settled by its operation.
OpWon(i) == opPromise[i].state # "pending" /\ race[i] = opPromise[i]

\* Pending timers of invocation i, and the signal of the interrupt received first among them.
TimersOf(i) == {n \in DOMAIN timers : timers[n].inv = i}
FirstSignal(i) == timers[CHOOSE n \in TimersOf(i) : \A m \in TimersOf(i) : n <= m].signal

\* C1: every invocation that has returned or thrown, with disableTelemetry
\* false and dispatch not gated, has dispatched exactly one started event and
\* exactly one terminal event (completed, errored or cancelled), and no other
\* event, under every interleaving of settlement and interrupts.
C1_OneStartedOneTerminal ==
    \A i \in Invs :
        (pc[i] = "done" /\ Emitting(i)) =>
            /\ Cardinality(EventsOf(i, "started")) = 1
            /\ Cardinality(TerminalEventsOf(i)) = 1
            /\ EventsOfInv(i) = EventsOf(i, "started") \cup TerminalEventsOf(i)

\* An invocation finished after both an interrupt and its operation settled.
C1_Witness ==
    \E i \in Invs :
        /\ pc[i] = "done" /\ Emitting(i)
        /\ cancelDeferred[i].state = "rejected"
        /\ opPromise[i].state # "pending"
        /\ Cardinality(EventsOfInv(i)) = 2

\* The case of C2: a pending interrupt, and its outcome.
C2_Interrupted(i, sig) ==
    /\ pc[i] = "racing"
    /\ opPromise[i].state = "pending"
    /\ cancelDeferred[i].state = "pending"
    /\ TimersOf(i) # {}
    /\ FirstSignal(i) = sig

C2_Cancelled(i, sig) ==
    /\ pc[i] = "done"
    /\ result[i].state = "rejected"
    /\ result[i].reason.kind = "CancelError"
    /\ result[i].reason.signal = sig
    /\ Emitting(i) =>
        /\ Cardinality(EventsOf(i, "cancelled")) = 1
        /\ EventsOf(i, "completed") \cup EventsOf(i, "errored") = {}

\* C2: when an interrupt with signal sig is pending for an awaiting invocation
\* whose operation has not settled, then unless the operation settles the
\* invocation eventually rejects with a CancelError carrying sig, having
\* dispatched (when it emits events) exactly one cancelled event and no
\* completed or errored event.
C2_InterruptCancels ==
    \A i \in OneInv, sig \in Signals :
        C2_Interrupted(i, sig) ~> (opPromise[i].state # "pending" \/ C2_Cancelled(i, sig))

\* An invocation whose operation never settled was cancelled by SIGTERM.
C2_Witness ==
    /\ opPromise[1].state = "pending"
    /\ Emitting(1)
    /\ C2_Cancelled(1, "SIGTERM")

\* The state and the step parts of C3.
C3_CancelledOutcome ==
    \A i \in Invs :
        (CancelWon(i) /\ pc[i] = "done") =>
            /\ result[i] = cancelDeferred[i]
            /\ EventsOf(i, "completed") \cup EventsOf(i, "errored") = {}
            /\ Emitting(i) => Cardinality(EventsOf(i, "cancelled")) = 1

C3_LateSettlementKeeps ==
    \A i \in Invs :
        CancelWon(i) =>
            /\ race'[i] = race[i]
            /\ pc[i] = "done" =>
                /\ result'[i] = result[i]
                /\ {events'[n] : n \in EventsOfInv(i)'} = {events[n] : n \in EventsOfInv(i)}

\* C3: once the rejection of cancelDeferred has settled the race, the race
\* keeps that outcome; the invocation rejects with that CancelError and its
\* events are the started and the cancelled event only; and a later settlement
\* of the operation changes neither the rejection propagated nor the events
\* dispatched for the invocation.
C3_LateSettlementDiscarded == [](C3_CancelledOutcome) /\ [][C3_LateSettlementKeeps]_vars

\* The operation settled after the invocation was cancelled.
C3_Witness ==
    \E i \in Invs :
        /\ CancelWon(i) /\ pc[i] = "done" /\ Emitting(i)
        /\ opPromise[i].state # "pending"
        /\ Cardinality(EventsOf(i, "cancelled")) = 1

\* C4: when the operation's failure e, not a CancelError, settles the race, the
\* invocation rethrows e, and when it emits events it dispatches exactly one
\* errored event and no completed or cancelled event; the error descriptor
\* holds e's message and stack when e is an Error and undefined for both when
\* it is not.
C4_ErroredAndRethrown ==
    \A i \in Invs :
        (pc[i] = "done" /\ OpWon(i) /\ opPromise[i].state = "rejected"
            /\ opPromise[i].reason.kind # "CancelError") =>
            LET e == opPromise[i].reason
            IN /\ result[i] = Rejected(e)
               /\ Emitting(i) =>
                    /\ Cardinality(EventsOf(i, "errored")) = 1
                    /\ EventsOf(i, "completed") \cup EventsOf(i, "cancelled") = {}
                    /\ \A n \in EventsOf(i, "errored") :
                         events[n].payload.properties.error =
                            IF e.kind = "Error"
                            THEN [message |-> e.message, stack |-> e.stack]
                            ELSE [message |-> Undefined, stack |-> Undefined]

\* A thrown value that is no Error was reported and rethrown.
C4_Witness ==
    /\ pc[1] = "done" /\ Emitting(1)
    /\ result[1] = Rejected(NotAnError)
    /\ EventsOf(1, "errored") # {}

\* C5: when the operation's resolution with v settles the race, the invocation
\* returns v, and when it emits events the terminal event is one completed
\* event (no errored or cancelled event) whose properties hold every starting
\* property not set again by setEventProperty, the last value set for every
\* key given to setEventProperty other than the computed duration fields, and
\* durationMs, the non-negative time from the start to the event (the clock
\* does not advance within the step that builds and sends the event).
C5_CompletedWithProperties ==
    \A i \in Invs :
        (pc[i] = "done" /\ OpWon(i) /\ opPromise[i].state = "fulfilled") =>
            /\ result[i] = Fulfilled(opPromise[i].value)
            /\ Emitting(i) =>
                /\ Cardinality(EventsOf(i, "completed")) = 1
                /\ EventsOf(i, "errored") \cup EventsOf(i, "cancelled") = {}
                /\ \A n \in EventsOf(i, "completed") :
                     LET p == events[n].payload.properties
                         bag == additionalProperties[i]
                     IN /\ \A k \in DOMAIN options[i].props \ DOMAIN bag :
                             k \in DOMAIN p /\ p[k] = options[i].props[k]
                        /\ \A k \in DOMAIN bag \ DurationKeys :
                             k \in DOMAIN p /\ p[k] = bag[k]
                        /\ "durationMs" \in DOMAIN p
                        /\ p.durationMs >= 0
                        /\ p.durationMs = events[n].payload.timestamp - startTime[i]
                        /\ p.durationSeconds = <<p.durationMs, 1000>>

\* The login scenario: a starting property, a property set by the operation, a result.
C5_Witness ==
    /\ pc[1] = "done" /\ Emitting(1)
    /\ result[1] = Fulfilled("42")
    /\ options[1].props = [alreadyLoggedIn |-> 0]
    /\ additionalProperties[1] = [newLoginSuccessful |-> 1]
    /\ \E n \in EventsOf(1, "completed") : events[n].payload.properties.durationMs = GracePeriod

\* C6: every terminal event is preceded, in dispatch order and in event id
\* order, by the started event of its invocation, and an emitting invocation
\* has dispatched its started event by the time its operation has been called.
C6_StartedFirst ==
    /\ \A i \in Invs : \A n \in TerminalEventsOf(i) :
         \E m \in EventsOf(i, "started") :
            /\ m < n
            /\ events[m].payload.properties.amplitude_event_id
                 < events[n].payload.properties.amplitude_event_id
    /\ \A i \in Invs : (opCalled[i] /\ Emitting(i)) => EventsOf(i, "started") # {}

\* The events of two invocations interleave: started 1, started 2, terminal 1, terminal 2.
C6_Witness ==
    /\ Len(events) = 4
    /\ EventsOf(1, "started") = {1} /\ EventsOf(2, "started") = {2}
    /\ TerminalEventsOf(1) = {3} /\ TerminalEventsOf(2) = {4}

\* C7: an invocation with disableTelemetry true dispatches no event, and its
\* outcome is that of the race: the operation's value or failure when only the
\* operation settled, the CancelError of the interrupt when only the
\* cancellation settled, one of the two otherwise.
C7_DisabledDispatchesNothing ==
    \A i \in Invs :
        options[i].disableTelemetry =>
            /\ EventsOfInv(i) = {}
            /\ pc[i] = "done" =>
                /\ result[i] \in {opPromise[i], cancelDeferred[i]} \ {Pending}
                /\ cancelDeferred[i].state = "rejected" =>
                     /\ cancelDeferred[i].reason.kind = "CancelError"
                     /\ cancelDeferred[i].reason.signal \in Signals

\* With dispatch not gated, a disabled invocation was cancelled while another one emitted events.
C7_Witness ==
    \E i \in Invs :
        /\ Dispatching /\ options[i].disableTelemetry /\ pc[i] = "done"
        /\ opPromise[i].state = "pending"
        /\ result[i] = cancelDeferred[i]
        /\ events # <<>>

\* The state and the step parts of C8.
C8_RegisteredWhileAwaiting ==
    \A s \in Signals :
        /\ {listeners[s][n] : n \in DOMAIN listeners[s]} = {i \in Invs : pc[i] = "racing"}
        /\ Len(listeners[s]) = Cardinality({i \in Invs : pc[i] = "racing"})

C8_NoTimerAfterExit ==
    \A i \in Invs : pc[i] = "done" => Cardinality(TimersOf(i)') <= Cardinality(TimersOf(i))

\* C8: the cancel handler of an invocation is registered on SIGINT and on
\* SIGTERM, once each, exactly while the invocation awaits the race; it is
\* removed on every exit path, and a signal starts no grace-period timer for
\* an invocation that has exited.
C8_HandlersSymmetric == [](C8_RegisteredWhileAwaiting) /\ [][C8_NoTimerAfterExit]_vars

\* The first of two awaiting invocations has exited; a signal is pending for the second only.
C8_Witness ==
    /\ pc[1] = "done" /\ pc[2] = "racing"
    /\ listeners = [s \in Signals |-> <<2>>]
    /\ TimersOf(2) # {} /\ TimersOf(1) = {}
    /\ cancelDeferred[1].state = "pending"

\* The state and the step parts of C9.
C9_OneCancelledEvent ==
    \A i \in Invs : Cardinality(EventsOf(i, "cancelled")) <= 1

C9_RejectedOnce ==
    \A i \in Invs :
        /\ cancelDeferred[i].state = "rejected" => cancelDeferred'[i] = cancelDeferred[i]
        /\ (cancelDeferred[i].state = "pending" /\ cancelDeferred'[i].state = "rejected") =>
             /\ TimersOf(i) # {}
             /\ cancelDeferred'[i] = Rejected(CancelError("Operation cancelled", FirstSignal(i)))

\* C9: cancelDeferred is rejected once, with the CancelError of the interrupt
\* received first, and keeps that rejection when later timers expire; an
\* invocation dispatches at most one cancelled event.
C9_InterruptsCollapse == [](C9_OneCancelledEvent) /\ [][C9_RejectedOnce]_vars

\* SIGINT then SIGTERM within the grace period of one invocation: it was
\* cancelled with SIGINT, one cancelled event, and the SIGTERM timer is still pending.
C9_Witness ==
    \E i \in Invs :
        /\ pc[i] = "done" /\ Emitting(i)
        /\ result[i] = Rejected(CancelError("Operation cancelled", "SIGINT"))
        /\ Cardinality(EventsOf(i, "cancelled")) = 1
        /\ \E n \in TimersOf(i) : timers[n].signal = "SIGTERM"

\* The state and the step parts of C10.
C10_IdsCountDispatches ==
    /\ amplitude_event_id = Len(events)
    /\ \A n \in DOMAIN events : events[n].payload.properties.amplitude_event_id = n - 1

C10_CounterGrows == amplitude_event_id' >= amplitude_event_id

\* C10: the k-th dispatched event carries event id k - 1, the counter equals
\* the number of events dispatched, and no step decreases it.
C10_EventIdsIncrease == [](C10_IdsCountDispatches) /\ [][C10_CounterGrows]_vars

\* Events of two concurrent invocations alternate.
C10_Witness ==
    /\ Len(events) = 4
    /\ events[1].inv = 1 /\ events[2].inv = 2 /\ events[3].inv = 1 /\ events[4].inv = 2

\* The state and the witness parts of C11: the gate as the claim words it.
C11_Gated == ~telemetry.enabled \/ sourceKey = SourceKeyPlaceholder

\* C11: when telemetry is disabled in the permission the reporter read, or the
\* build has no delivery credential (whatever the permission says), sendEvent
\* does nothing: sparrow.sendEvent has been called zero times, no dispatch
\* record exists and the event id counter has not moved, whatever calls of
\* sendEvent and collectAsyncMetrics were made.
C11_GatedSendIsNoOp ==
    C11_Gated => sinkCalls = 0 /\ events = <<>> /\ amplitude_event_id = 0

\* An invocation with telemetry permitted and not disabled has returned, so
\* sendEvent was called for its started and completed events, in a build without
\* credential: nothing was sent.
C11_Witness ==
    /\ telemetry.enabled
    /\ sourceKey = SourceKeyPlaceholder
    /\ pc[1] = "done"
    /\ ~options[1].disableTelemetry
    /\ result[1].state = "fulfilled"
    /\ sinkCalls = 0

\* The state and the step parts of C12.
C12_FailureRecorded ==
    /\ sinkCalls = Len(events)
    /\ \A n \in DOMAIN events :
         /\ events[n].status \in {"pending", "success", "failed"}
         /\ events[n].status = "failed" <=> events[n].reason \in {FetchFailed, StringifyFailed}
C12_SettlementIsLocal ==
    [][(\E n \in DOMAIN events : events[n].status = "pending" /\ events'[n].status # "pending")
         => /\ UNCHANGED <<result, race, opPromise, cancelDeferred, pc, listeners,
                            amplitude_event_id, sinkCalls>>
            /\ Len(events') = Len(events)
            /\ \A n \in DOMAIN events : events'[n].payload = events[n].payload]_vars

\* C12: a send that fails is recorded in its dispatch record with status
\* "failed" and the reason it failed with; the sink is called exactly once per
\* dispatch record, failed or not (no retry); and the step in which a send
\* settles changes neither the promise collectAsyncMetrics returned nor the race
\* or the operation it depends on, nor any payload.
C12_SendFailureContained == []C12_FailureRecorded /\ C12_SettlementIsLocal

\* The sends of both events of an invocation failed and it returned the
\* operation's value.
C12_Witness ==
    /\ result[1] = Fulfilled("42")
    /\ Cardinality({n \in DOMAIN events : events[n].inv = 1}) = 2
    /\ \A n \in DOMAIN events :
         events[n].inv = 1 => events[n].status = "failed" /\ events[n].reason = FetchFailed

\* C13: waitForAllEventsSettled never rejects, and when it has resolved every
\* dispatch made before the call has settled (with no dispatch it resolves at
\* once, with every dispatch failed it resolves all the same).
C13_WaitNeverRejects ==
    /\ settled.state # "rejected"
    /\ settled.state = "resolved" =>
         \A n \in 1..settled.upto : events[n].status \in {"success", "failed"}

\* The two step parts of C14: what the terminal event takes from the bag when
\* it is built, and that a dispatched payload never changes afterwards.
C14_BagInTerminalEvent ==
    [][\A i \in Invs :
         pc[i] = "racing" /\ pc'[i] = "done" /\ Emitting(i)
         => /\ Len(events') = Len(events) + 1
            /\ \A k \in DOMAIN additionalProperties[i] \ DurationKeys :
                 /\ k \in DOMAIN events'[Len(events')].payload.properties
                 /\ events'[Len(events')].payload.properties[k] = additionalProperties[i][k]]_vars
C14_NoPostHocMutation ==
    [][\A n \in DOMAIN events :
         n \in DOMAIN events' /\ events'[n].payload = events[n].payload]_vars

\* C14: with telemetry emitting, every property the operation's call tree has
\* set (other than the names of the computed fields) when collectAsyncMetrics
\* resumes after its await is in the terminal event built in that step, with the
\* value set; and no later step, a setEventProperty of an operation still
\* running after the cancellation included, changes the payload of an event
\* already dispatched.
C14_SetBeforeNotAfter == C14_BagInTerminalEvent /\ C14_NoPostHocMutation

\* The invocation was cancelled while its operation runs on: alreadyLoggedIn,
\* set before, is in the cancelled event with the value set; newLoginSuccessful,
\* set after, is in the bag and not in the event.
C14_Witness ==
    /\ pc[1] = "done"
    /\ opPromise[1].state = "pending"
    /\ "newLoginSuccessful" \in DOMAIN additionalProperties[1]
    /\ "alreadyLoggedIn" \in DOMAIN additionalProperties[1]
    /\ \E n \in EventsOf(1, "cancelled") :
         /\ "newLoginSuccessful" \notin DOMAIN events[n].payload.properties
         /\ events[n].payload.properties["alreadyLoggedIn"] \in SetValues
         /\ events[n].payload.properties["alreadyLoggedIn"] = additionalProperties[1]["alreadyLoggedIn"]

\* The two step parts of C15: the properties of the terminal event built in a
\* step (after the await, or in the catch block of a synchronous throw), and
\* what a call of setEventProperty leaves in the bag.
C15_TerminalMerge ==
    [][\A i \in Invs :
         pc[i] # "done" /\ pc'[i] = "done" /\ Emitting(i)'
         => LET p == events'[Len(events')].payload.properties
                outcome == IF pc[i] = "racing" THEN race[i] ELSE opPromise'[i]
                errored == outcome.state = "rejected" /\ outcome.reason.kind # "CancelError"
                computed == DurationKeys \cup (IF errored THEN {"error"} ELSE {})
                props == options'[i].props
                bag == additionalProperties[i]
                ms == now - startTime'[i]
            IN /\ Len(events') > Len(events)
               /\ p["durationMs"] = ms
               /\ p["durationSeconds"] = <<ms, 1000>>
               /\ p["durationMinutes"] = <<ms, 60000>>
               /\ errored =>
                    p["error"] = [message |-> outcome.reason.message,
                                  stack |-> outcome.reason.stack]
               /\ \A k \in (DOMAIN props \cup DOMAIN bag) \ computed :
                    /\ k \in DOMAIN p
                    /\ p[k] = IF k \in DOMAIN bag THEN bag[k] ELSE props[k]]_vars
C15_LaterSetOverwrites ==
    [][\A key \in MergeKeys, value \in SetValues :
         setEventProperty(1, key, value)
         => /\ additionalProperties'[1][key] = value
            /\ \A k \in DOMAIN additionalProperties[1] \ {key} :
                 additionalProperties'[1][k] = additionalProperties[1][k]]_vars

\* C15: in every terminal event, with telemetry emitting, a key given both as
\* starting property and to setEventProperty has the value of the property bag,
\* a key given only as starting property keeps that value, the value in the bag
\* is the one of the latest setEventProperty call for the key, and durationMs,
\* durationSeconds, durationMinutes (and error, in the errored event of an
\* Error) have the computed value whatever the starting properties and the bag
\* hold under those names.
C15_MergeOrder == C15_TerminalMerge /\ C15_LaterSetOverwrites

\* An errored event after 10 ms: durationMs and error were given as starting
\* properties and set in the bag, alreadyLoggedIn was started with 0 and set to 2.
C15_Witness ==
    /\ pc[1] = "done"
    /\ {"alreadyLoggedIn", "durationMs", "error"} \subseteq DOMAIN options[1].props
    /\ {"alreadyLoggedIn", "durationMs", "error"} \subseteq DOMAIN additionalProperties[1]
    /\ \E n \in EventsOf(1, "errored") :
         /\ events[n].payload.properties["durationMs"] = GracePeriod
         /\ events[n].payload.properties["error"] = [message |-> "boom", stack |-> "Error: boom"]
         /\ events[n].payload.properties["alreadyLoggedIn"] = 2
         /\ additionalProperties[1]["alreadyLoggedIn"] = 2

\* C16: a nested invocation creates no Invocation Context of its own: a
\* setEventProperty call made inside the operation of an invocation that was
\* called from the operation of another one is recorded in the property bag of
\* the enclosing invocation, and the inner invocation's bag is left as it was.
C16_NestedSharesOuter ==
    [][\A j \in Invs, key \in ConcSetKeys, value \in ConcSetValues :
         parent[j] # 0 /\ setEventProperty(j, key, value)
         => /\ key \in DOMAIN additionalProperties'[parent[j]]
            /\ additionalProperties'[parent[j]][key] = value
            /\ additionalProperties'[j] = additionalProperties[j]]_vars

\* The step parts of C16 as the code has it: where a call inside the inner
\* operation is recorded, and which bag a terminal event is built from.
C16_InnerCallInInnerBag ==
    [][\A j \in Invs, key \in ConcSetKeys, value \in ConcSetValues :
         parent[j] # 0 /\ setEventProperty(j, key, value)
         => /\ key \in DOMAIN additionalProperties'[j]
            /\ additionalProperties'[j][key] = value
            /\ additionalProperties'[parent[j]] = additionalProperties[parent[j]]]_vars
C16_EventFromOwnBag ==
    [][\A i \in Invs :
         pc[i] = "racing" /\ pc'[i] = "done" /\ Emitting(i)
         => \A key \in ConcSetKeys :
              key \in DOMAIN events'[Len(events')].payload.properties
              <=> key \in DOMAIN additionalProperties[i]]_vars

\* C16 (amended): every invocation of collectAsyncMetrics runs its operation in
\* a store of its own (als.run), nested or not: a setEventProperty call made
\* inside the inner operation is recorded in the inner invocation's bag and
\* leaves the enclosing invocation's bag unchanged, and a terminal event holds a
\* context property exactly when the bag of its own invocation does.
C16_NestedOwnContext == C16_InnerCallInInnerBag /\ C16_EventFromOwnBag

\* Invocation 2 was called from the operation of invocation 1 and both have
\* returned: the property set inside the inner operation is in the inner bag
\* and the inner terminal event, and in neither the outer bag nor the outer
\* terminal event.
C16_Witness ==
    /\ parent[2] = 1
    /\ pc[1] = "done" /\ pc[2] = "done"
    /\ "newLoginSuccessful" \in DOMAIN additionalProperties[2]
    /\ additionalProperties[1] = EmptyObject
    /\ \E n \in TerminalEventsOf(2) : "newLoginSuccessful" \in DOMAIN events[n].payload.properties
    /\ \E n \in TerminalEventsOf(1) :
         "newLoginSuccessful" \notin DOMAIN events[n].payload.properties

\* The state and the step parts of C17.
C17_EventsFromOwnBag ==
    \A b \in Invs : \A n \in EventsOfInv(b) : \A key \in ConcSetKeys :
        key \in DOMAIN events[n].payload.properties => key \in DOMAIN additionalProperties[b]
C17_CallInOwnBag ==
    [][\A a \in Invs, key \in ConcSetKeys, value \in ConcSetValues :
         parent[a] = 0 /\ setEventProperty(a, key, value)
         => /\ key \in DOMAIN additionalProperties'[a]
            /\ additionalProperties'[a][key] = value
            /\ \A b \in Invs \ {a} :
                 parent[b] = 0 => additionalProperties'[b] = additionalProperties[b]]_vars

\* C17: for two top-level invocations, however their steps interleave, a
\* setEventProperty call made in the call tree of one is recorded in its own
\* property bag and leaves the bag of the other unchanged, and an event of an
\* invocation holds a context property only if the bag of that same invocation
\* holds it.
C17_TopLevelIsolated == []C17_EventsFromOwnBag /\ C17_CallInOwnBag

\* Two top-level invocations ran side by side (the second started before the
\* first ended) and both returned; only the first set a property: it is in the
\* first one's terminal event and in no event of the second.
C17_Witness ==
    /\ ninv = 2 /\ parent[1] = 0 /\ parent[2] = 0
    /\ pc[1] = "done" /\ pc[2] = "done"
    /\ "newLoginSuccessful" \in DOMAIN additionalProperties[1]
    /\ additionalProperties[2] = EmptyObject
    /\ \E n \in TerminalEventsOf(1), m \in EventsOf(2, "started") :
         /\ m < n
         /\ "newLoginSuccessful" \in DOMAIN events[n].payload.properties
    /\ TerminalEventsOf(2) # {}
    /\ \A m \in EventsOfInv(2) : "newLoginSuccessful" \notin DOMAIN events[m].payload.properties

\* The state and the step parts of C18.
C18_OutcomeByMode ==
    lastCall # NoCall =>
        IF lastCall.vitest
        THEN /\ lastCall.outcome = "thrown"
             /\ lastCall.error.kind = "Error"
             /\ lastCall.error.message = "setEventProperty must be called within collectAsyncMetrics"
        ELSE lastCall.outcome = "returned" /\ lastCall.error = NoFailure
C18_NothingChanged ==
    [][lastCall' # lastCall
         => UNCHANGED <<additionalProperties, events, sinkCalls, amplitude_event_id, pc, race,
                        result, settled>>]_vars

\* C18: a setEventProperty call made where no store is current (outside the
\* call tree of every operation, before, during or after an invocation) changes
\* no property bag and dispatches nothing; without VITEST in the environment it
\* returns, with VITEST it throws an Error saying setEventProperty must be
\* called within collectAsyncMetrics.
C18_NoContextCall == []C18_OutcomeByMode /\ C18_NothingChanged

\* While an invocation awaits with its started event dispatched and an empty
\* bag, a call from outside its operation has thrown under VITEST.
C18_Witness ==
    /\ lastCall.vitest
    /\ lastCall.outcome = "thrown"
    /\ pc[1] = "racing"
    /\ additionalProperties[1] = EmptyObject
    /\ Len(events) = 1

\* Only the status command has been run by this process, at least once.
C19_OnlyStatusRan ==
    commands # <<>> /\ \A n \in DOMAIN commands : commands[n].action = "status"

\* C19: the status command performs no mutation: for every persisted record a
\* process starts with, the one without c3permission of a first run included,
\* the persisted record after running status is the record from before.
C19_StatusNeverMutates == C19_OnlyStatusRan => config = stored

\* The state and the step parts of C19 as the code has it.
C19_RecordAfterStatus ==
    C19_OnlyStatusRan =>
        /\ stored # <<>> => config = stored
        /\ stored = <<>> => config = <<[enabled |-> TRUE, date |-> 0]>>
C19_StatusStep ==
    [][runTelemetryCommand("status")
         => /\ config # <<>>
            /\ config' = config
            /\ commands'[Len(commands')].logged =
                 <<"Status: ", IF config[1].enabled THEN "Enabled" ELSE "Disabled">>]_vars

\* C19 (amended): status leaves a persisted record that holds a c3permission
\* unchanged, date included, and logs its enabled state. A record without
\* c3permission (first run) does not stay as it was: getC3Permission, called
\* when the reporter is created and again by status, establishes it as enabled
\* with the date of the process start, and status logs Enabled.
C19_StatusKeepsEstablished == []C19_RecordAfterStatus /\ C19_StatusStep

\* A process that started with telemetry disabled on record ran status 10 ms
\* later: the record is the stored one and Disabled was logged.
C19_Witness ==
    /\ stored = <<[enabled |-> FALSE, date |-> -1]>>
    /\ now = GracePeriod
    /\ commands = <<[action |-> "status", logged |-> <<"Status: ", "Disabled">>]>>
    /\ config = stored

\* The command that asks for `enabled`.
C20_Command(enabled) == IF enabled THEN "enable" ELSE "disable"

\* The step parts of C20, and the function part: updateC3Pemission applied to
\* every persisted record, the one without c3permission included.
C20_WritesOnlyOnChange ==
    [][\A enabled \in BOOLEAN :
         runTelemetryCommand(C20_Command(enabled))
         => IF config # <<>> /\ config[1].enabled = enabled
            THEN config' = config
            ELSE config' = <<[enabled |-> enabled, date |-> now]>>]_vars
C20_SecondIsNoOp ==
    [][\A enabled \in BOOLEAN :
         /\ commands # <<>>
         /\ commands[Len(commands)].action = C20_Command(enabled)
         /\ runTelemetryCommand(C20_Command(enabled))
         => config' = config]_vars
C20_TwiceIsOnce ==
    \A cfg \in StoredConfigs \cup {config}, enabled \in BOOLEAN :
        LET once == updateC3PemissionConfig(cfg, enabled, now)
            twice == updateC3PemissionConfig(once, enabled, now + GracePeriod)
        IN /\ twice = once
           /\ once = IF cfg # <<>> /\ cfg[1].enabled = enabled THEN cfg
                      ELSE <<[enabled |-> enabled, date |-> now]>>

\* C20: enable and disable write nothing when the persisted permission already
\* has the requested value (the stored date stays); when it differs or is
\* absent the record becomes the requested value with the current date; and the
\* same command run a second time, later, leaves the record the first run
\* left.
C20_EnableDisableIdempotent == []C20_TwiceIsOnce /\ C20_WritesOnlyOnChange /\ C20_SecondIsNoOp

\* Telemetry was enabled on record; disable ran at 10 ms and again at 20 ms:
\* the record holds disabled with the date of the first run.
C20_Witness ==
    /\ stored = <<[enabled |-> TRUE, date |-> -1]>>
    /\ now = 2 * GracePeriod
    /\ Len(commands) = 2
    /\ commands[1].action = "disable" /\ commands[2].action = "disable"
    /\ config = <<[enabled |-> FALSE, date |-> GracePeriod]>>

\* What invocation i ended with: the settled race, or what options.promise
\* threw before the race was made.
C21_Outcome(i) == IF race[i].state # "pending" THEN race[i] ELSE opPromise[i]

\* C21: a cancelled event is dispatched for an invocation if and only if its
\* race was settled by the rejection of its own cancelDeferred; a failure of the
\* operation itself, a CancelError thrown by nested code included, is reported
\* as errored.
C21_CancelledOnlyByController ==
    \A i \in Invs :
        pc[i] = "done" /\ Emitting(i)
        => /\ EventsOf(i, "cancelled") # {} <=> CancelWon(i)
           /\ C21_Outcome(i).state = "rejected" /\ ~CancelWon(i)
              => EventsOf(i, "errored") # {}

\* C21 (amended): with telemetry emitting, the terminal event is cancelled if
\* and only if the invocation ended with a CancelError, whether the rejection of
\* its cancelDeferred or a CancelError thrown by the operation (then without an
\* interrupt and without a signal); it is errored if and only if the invocation
\* ended with any other failure; and no invocation has both.
C21_CancelledByCancelError ==
    \A i \in Invs :
        pc[i] = "done" /\ Emitting(i)
        => LET o == C21_Outcome(i)
           IN /\ EventsOf(i, "cancelled") # {}
                 <=> o.state = "rejected" /\ o.reason.kind = "CancelError"
              /\ EventsOf(i, "errored") # {}
                 <=> o.state = "rejected" /\ o.reason.kind # "CancelError"
              /\ Cardinality(TerminalEventsOf(i)) = 1

\* The operation rejected with a CancelError of its own, no interrupt was
\* received, and the cancelled event was dispatched.
C21_Witness ==
    /\ pc[1] = "done"
    /\ race[1] = Rejected(NestedCancel)
    /\ cancelDeferred[1].state = "pending"
    /\ timers = <<>>
    /\ EventsOf(1, "cancelled") # {}
    /\ EventsOf(1, "errored") = {}
    /\ result[1] = Rejected(NestedCancel)

\* The step and the state parts of C22: when the timer of cancel() is due, when
\* cancelDeferred rejects, what an invocation whose operation settled first
\* ends with, and what a rejection after the invocation ended changes.
C22_TimerDueAfterGrace ==
    [][Len(timers') > Len(timers)
         => \A n \in (Len(timers) + 1)..Len(timers') : timers'[n].due = now + GracePeriod]_vars
C22_RejectsWhenDue ==
    [][\A i \in Invs :
         cancelDeferred[i].state = "pending" /\ cancelDeferred'[i].state # "pending"
         => /\ timers # <<>>
            /\ timers[1].inv = i
            /\ timers[1].due <= now
            /\ timers' = Tail(timers)]_vars
C22_OperationOutcome ==
    \A i \in Invs :
        pc[i] = "done" /\ OpWon(i)
        => /\ result[i] = opPromise[i]
           /\ Emitting(i) =>
                /\ Cardinality(TerminalEventsOf(i)) = 1
                /\ opPromise[i].state = "fulfilled" => EventsOf(i, "completed") # {}
                /\ opPromise[i].state = "rejected" /\ opPromise[i].reason.kind # "CancelError"
                   => EventsOf(i, "errored") # {}
C22_LateRejectionSilent ==
    [][\A i \in Invs :
         pc[i] = "done" /\ cancelDeferred'[i] # cancelDeferred[i]
         => UNCHANGED <<events, sinkCalls, amplitude_event_id, result, race, pc>>]_vars

\* C22: the timer cancel() awaits is due one grace period after the interrupt,
\* and cancelDeferred rejects only in the step in which a due timer of its
\* invocation expires; when the operation settles the race first, during the
\* grace period included, the invocation returns the operation's value or
\* rethrows its failure and, with telemetry emitting, dispatches the one
\* completed or errored event (errored for a failure that is no CancelError);
\* and the rejection of cancelDeferred after the invocation ended changes no
\* dispatch record and no result.
C22_GraceBeforeRejection ==
    /\ C22_TimerDueAfterGrace /\ C22_RejectsWhenDue
    /\ []C22_OperationOutcome /\ C22_LateRejectionSilent

\* The operation resolved while the timer of an interrupt was pending; the
\* timer has since expired and rejected cancelDeferred: the invocation returned
\* the value, with a started and a completed event and nothing else.
C22_Witness ==
    /\ pc[1] = "done"
    /\ race[1] = Fulfilled("42")
    /\ result[1] = Fulfilled("42")
    /\ cancelDeferred[1].state = "rejected"
    /\ timers = <<>>
    /\ Len(events) = 2
    /\ EventsOf(1, "completed") # {}

\* C23: in every terminal event durationMs is the clock reading taken when the
\* event is built minus the start time read at entry, durationSeconds and
\* durationMinutes are the quotients of that same value, and durationMs >= 0.
C23_DurationFromOneReading ==
    \A i \in Invs : \A n \in TerminalEventsOf(i) :
        LET p == events[n].payload.properties
        IN /\ p["durationMs"] = events[n].payload.timestamp - startTime[i]
           /\ p["durationSeconds"] = <<p["durationMs"], 1000>>
           /\ p["durationMinutes"] = <<p["durationMs"], 60000>>
           /\ p["durationMs"] >= 0

\* The keys of the session metadata in a payload's properties.
C24_MetadataKeys ==
    {"amplitude_session_id", "amplitude_event_id", "platform", "c3Version", "isFirstUsage",
     "packageManager"}

\* C24: a sendEvent call that passes the gate builds a payload whose event is
\* the given name after the prefix "test ", whose deviceId and timestamp are
\* the reporter's device id and the clock reading whatever keys the caller's
\* properties have, and whose properties hold every caller property with the
\* caller's value, a key of the session metadata included, and the session
\* metadata under every metadata key the caller did not give.
C24_PayloadShape ==
    [][\A name \in DirectNames, props \in Objects(PayloadKeys, PayloadValues) :
         SendEventCall(name, props) /\ Dispatching
         => LET e == events'[Len(events')].payload
            IN /\ Len(events') = Len(events) + 1
               /\ e.event = <<"test ">> \o name
               /\ e.deviceId = "device"
               /\ e.timestamp = now
               /\ DOMAIN e.properties = C24_MetadataKeys \cup DOMAIN props
               /\ \A k \in DOMAIN props : e.properties[k] = props[k]
               /\ "amplitude_event_id" \notin DOMAIN props
                  => e.properties["amplitude_event_id"] = amplitude_event_id
               /\ e.properties["amplitude_session_id"] = 0
               /\ e.properties["isFirstUsage"] = isFirstUsage
               /\ e.properties["platform"] = <<"Linux">>
               /\ e.properties["c3Version"] = "c3Version"
               /\ e.properties["packageManager"] = "npm"]_vars

\* A second event was sent 10 ms after the first with properties named
\* amplitude_event_id, deviceId and timestamp: the metadata field holds the
\* caller's value, the two payload fields the dispatcher's.
C24_Witness ==
    /\ Len(events) = 2
    /\ amplitude_event_id = 2
    /\ PayloadKeys \subseteq DOMAIN events[2].payload.properties
    /\ events[2].payload.properties["amplitude_event_id"] = 7
    /\ events[2].payload.properties["deviceId"] = 7
    /\ events[2].payload.properties["timestamp"] = 7
    /\ events[2].payload.deviceId = "device"
    /\ events[2].payload.timestamp = GracePeriod
    /\ events[2].payload.event = <<"test ", "c3 session started">>

\* The step and the state parts of C25.
C25_AppendOnly ==
    [][/\ Len(events') >= Len(events)
       /\ \A n \in DOMAIN events :
            /\ events'[n].payload = events[n].payload
            /\ events'[n].inv = events[n].inv
            /\ events[n].status # "pending" => events'[n] = events[n]]_vars
C25_OneRecordPerSend ==
    [][\A name \in DirectNames, props \in ConcProps :
         SendEventCall(name, props) /\ Dispatching
         => /\ Len(events') = Len(events) + 1
            /\ events'[Len(events')].status = "pending"]_vars
C25_WaitOnlyReads ==
    [][settled' # settled
         => /\ events' = events
            /\ settled'.state = "waiting" => settled'.upto = Len(events)]_vars
C25_SecondSeesFirst ==
    settled.state # "none" => settled.before <= settled.upto /\ settled.upto <= Len(events)

\* C25: a sendEvent that passes the gate appends one record; no step removes or
\* reorders records or changes a settled one; waitForAllEventsSettled leaves
\* the array as it is; and a call of it takes every record the call before it
\* took.
C25_RecordsAppendOnly ==
    C25_AppendOnly /\ C25_OneRecordPerSend /\ C25_WaitOnlyReads /\ []C25_SecondSeesFirst

\* A first call resolved over two records; a second call, made after a third
\* record was appended, resolved over the three.
C25_Witness ==
    /\ settled.state = "resolved"
    /\ settled.before = 2
    /\ settled.upto = 3
    /\ Len(events) = 3

\* The function, the state and the step parts of C26.
C26_EstablishedByRead ==
    \A cfg \in StoredConfigs \cup {config} :
        /\ getC3PermissionConfig(cfg, now) =
             IF cfg = <<>> THEN <<[enabled |-> TRUE, date |-> now]>> ELSE cfg
        /\ getC3Permission(cfg, now) =
             IF cfg = <<>> THEN [enabled |-> TRUE, date |-> now] ELSE cfg[1]
C26_EstablishedAtStart ==
    /\ config # <<>>
    /\ commands = <<>> =>
         config = IF stored = <<>> THEN <<[enabled |-> TRUE, date |-> 0]>> ELSE stored
C26_ChangedOnlyByUpdate ==
    [][config' # config
         => \E enabled \in BOOLEAN :
              /\ runTelemetryCommand(IF enabled THEN "enable" ELSE "disable")
              /\ config[1].enabled # enabled
              /\ config' = <<[enabled |-> enabled, date |-> now]>>]_vars

\* C26: getC3Permission on a config without c3permission establishes it as
\* enabled with the current date and writes it, and on a config that has one
\* returns it and writes nothing; the reporter calls it at creation, so the
\* persisted record holds a permission from then on, and it changes afterwards
\* only in a step of enable or disable that asks for the other value, to that
\* value with the date of the step.
C26_PermissionEstablishedOnce ==
    []C26_EstablishedByRead /\ []C26_EstablishedAtStart /\ C26_ChangedOnlyByUpdate

\* A first run: the permission was established as enabled at the start, status
\* at 10 ms left it alone, and disable at 20 ms rewrote it.
C26_Witness ==
    /\ stored = <<>>
    /\ isFirstUsage
    /\ Len(commands) = 2
    /\ commands[1] = [action |-> "status", logged |-> <<"Status: ", "Enabled">>]
    /\ commands[2].action = "disable"
    /\ config = <<[enabled |-> FALSE, date |-> 2 * GracePeriod]>>

\* The state and the step parts of C27.
C27_CountIsCounter == Len(events) = amplitude_event_id
C27_GatedChangesNeither ==
    [][C11_Gated => UNCHANGED <<events, amplitude_event_id>>]_vars
C27_SendIncrementsBoth ==
    [][\A name \in DirectNames, properties \in ConcProps :
         SendEventCall(name, properties) /\ ~C11_Gated
           => /\ amplitude_event_id' = amplitude_event_id + 1
              /\ Len(events') = Len(events) + 1
              /\ SubSeq(events', 1, Len(events)) = events]_vars
C27_InStep ==
    [][Len(events') - Len(events) = amplitude_event_id' - amplitude_event_id]_vars

\* C27: in every reachable state the number of dispatch records equals the
\* event id counter; while sending is gated no step changes either, and a
\* sendEvent that passes the gate adds one to the counter and appends one
\* record in the same step.
C27_RecordsMatchCounter ==
    []C27_CountIsCounter /\ C27_GatedChangesNeither /\ C27_SendIncrementsBoth /\ C27_InStep

\* Three events went out, one of them by a direct sendEvent, and the counter
\* stands at three.
C27_Witness ==
    /\ Len(events) = 3
    /\ amplitude_event_id = 3
    /\ \E n \in 1..3 : events[n].inv = 0

\* Both invocations are awaiting their race, the second inside the operation of
\* the first.
C28_BothInFlight ==
    /\ ninv = 2
    /\ parent[2] = 1
    /\ pc[1] = "racing" /\ pc[2] = "racing"

\* An interrupt that arrives while both are in flight starts the grace period
\* of each: the step adds one timer per invocation, both for the signal
\* received and both due 10 ms later.
C28_EachCancels ==
    [][C28_BothInFlight /\ Len(timers') > Len(timers)
         => \E sig \in Signals :
              \A i \in Invs :
                 \E n \in (DOMAIN timers') \ (DOMAIN timers) :
                    timers'[n] = [inv |-> i, signal |-> sig, due |-> now + GracePeriod]]_vars

\* Dispatch records named <<prefix phase>> of invocation i: told apart by the
\* name alone when the two prefixes differ.
C28_Named(i, phase) ==
    IF options[1].eventPrefix # options[2].eventPrefix
    THEN {n \in DOMAIN events :
            events[n].payload.event = <<"test ", options[i].eventPrefix, " ", phase>>}
    ELSE EventsOf(i, phase)

\* Once both cancellations have settled their races and both invocations have
\* left, each has rejected with the CancelError of its own cancellation and,
\* when it emits, has dispatched one cancelled event and no errored or
\* completed event under its prefix.
C28_BothCancelled ==
    /\ ninv = 2 /\ parent[2] = 1
    /\ \A i \in Invs : pc[i] = "done" /\ CancelWon(i)
    => \A i \in Invs :
         /\ result[i].state = "rejected"
         /\ InstanceOfCancelError(result[i].reason)
         /\ result[i] = cancelDeferred[i]
         /\ Emitting(i) =>
              /\ Cardinality(C28_Named(i, "cancelled")) = 1
              /\ C28_Named(i, "errored") = {}
              /\ C28_Named(i, "completed") = {}

\* C28: when an interrupt arrives while a nested and its enclosing
\* collectAsyncMetrics are both awaiting, the cancel of each runs; when neither
\* operation settles within the grace period, both invocations reject with a
\* CancelError and each dispatches exactly one cancelled event of its own
\* prefix and no errored event.
C28_NestedBothCancel == C28_EachCancels /\ []C28_BothCancelled

\* SIGINT arrived while "c3 session" awaited around "c3 login"; after the grace
\* period both have rejected, and the events are the two started and the two
\* cancelled ones, the outer invocation's cancelled event first.
C28_Witness ==
    /\ ninv = 2 /\ parent[2] = 1
    /\ options[1].eventPrefix = "c3 session" /\ options[2].eventPrefix = "c3 login"
    /\ \A i \in Invs : pc[i] = "done" /\ CancelWon(i) /\ Emitting(i)
    /\ result[1].reason.signal = "SIGINT" /\ result[2].reason.signal = "SIGINT"
    /\ Len(events) = 4
    /\ events[3].payload.event = <<"test ", "c3 session", " ", "cancelled">>
    /\ events[4].payload.event = <<"test ", "c3 login", " ", "cancelled">>
    /\ now = GracePeriod

\* A send taken by the waiting call of waitForAllEventsSettled is outstanding.
C29_Outstanding == \E n \in 1..settled.upto : events[n].status = "pending"

\* The state and the step parts of C29.
C29_TakenAtCall ==
    [][settled'.state = "waiting"
         => settled'.upto = IF settled.state = "waiting" THEN settled.upto ELSE Len(events)]_vars
C29_ResumesWhenTakenSettled ==
    settled.state = "waiting" => (ENABLED WaitResume <=> ~C29_Outstanding)
C29_NoTimeout ==
    [][settled.state = "waiting" /\ C29_Outstanding /\ settled'.state # "waiting"
         => FALSE]_vars

\* C29: a call of waitForAllEventsSettled waits for the sends dispatched before
\* it, and for no others: what it awaits is fixed at the call, it can go on as
\* soon as those have settled whatever was dispatched since, and while one of
\* them is outstanding no step ends the wait, so a send that never settles
\* keeps the call waiting for ever.
C29_WaitsForEarlierSends ==
    C29_TakenAtCall /\ []C29_ResumesWhenTakenSettled /\ C29_NoTimeout

\* The call took one send, a second was dispatched while it waited, and the
\* call has resolved with the second still outstanding.
C29_Witness ==
    /\ settled.state = "resolved"
    /\ settled.upto = 1
    /\ Len(events) = 2
    /\ events[1].status = "success"
    /\ events[2].status = "pending"

\* The permission the reporter got at creation: the stored one, or enabled
\* when none was stored.
C30_EnabledAtCreation == stored = <<>> \/ stored[1].enabled

\* The state and the step parts of C30.
C30_FixedAtCreation ==
    /\ isFirstUsage = (stored = <<>>)
    /\ telemetry.enabled = C30_EnabledAtCreation
    /\ config # <<>>
C30_NeverReassigned == [][UNCHANGED <<isFirstUsage, telemetry, stored, sourceKey>>]_vars
C30_SameInEveryEvent ==
    \A n \in DOMAIN events :
        /\ events[n].payload.properties.isFirstUsage = (stored = <<>>)
        /\ events[n].payload.properties.amplitude_session_id = 0
        /\ events[n].payload.deviceId = "device"
C30_GateFromCreation ==
    [][\A name \in DirectNames, props \in ConcProps :
         SendEventCall(name, props)
           => (Len(events') = Len(events) + 1
                 <=> C30_EnabledAtCreation /\ sourceKey # SourceKeyPlaceholder)]_vars

\* C30: isFirstUsage is true exactly when no permission was stored before the
\* reporter was created, although creating it stores one; it, the session id
\* (the time of creation), the device id and the enabled flag of the gate are
\* never reassigned, every event carries the same values of the first three,
\* and a sendEvent is gated by the permission as it was at creation, whatever
\* enable and disable have stored since.
C30_SessionMetadataFixed ==
    []C30_FixedAtCreation /\ C30_NeverReassigned /\ []C30_SameInEveryEvent
    /\ C30_GateFromCreation

\* A first run: disable at 10 ms stored a disabled permission, and the event
\* sent at 20 ms went out all the same, marked as first usage and with the
\* session id of the event before it.
C30_Witness ==
    /\ stored = <<>>
    /\ config = <<[enabled |-> FALSE, date |-> GracePeriod]>>
    /\ Len(events) = 2
    /\ events[1].payload.timestamp = 0
    /\ events[2].payload.timestamp = 2 * GracePeriod
    /\ events[2].payload.properties.isFirstUsage
    /\ events[2].payload.properties.amplitude_session_id = 0

====
